---- MODULE Spec2Model ----
(***************************************************************************)
(* Period lifecycle engine of the cyclic time tracker.                     *)
(*                                                                         *)
(* PeriodManager (src/app/services/PeriodManager.ts) runs on top of the    *)
(* SQLite-backed StorageService (src/src/routes/timeline.tsx).  Every      *)
(* storage operation is awaited, so a lifecycle call is a sequence of      *)
(* steps: each step resumes the call after its previous await, computes    *)
(* on its locals and issues the next storage operation.  The storage       *)
(* worker executes operations in the order they are issued.                *)
(***************************************************************************)
EXTENDS Integers, Sequences, FiniteSets, TLC

VARIABLES
  store,             \* periods table: id -> row
  nextId,            \* next value generateUUID() hands out
  clock,             \* Date.now()
  pc,                \* per call slot: position of the call
  op,                \* per call slot: operation the slot runs
  now,               \* per call slot: local `now`
  activePeriod,      \* per call slot: local `activePeriod` (<<>> is null)
  resumeFromPeriod,  \* per call slot: local `resumeFromPeriod` (<<>> is null)
  newPeriod,         \* per call slot: local `newPeriod`, the value returned
  period,            \* per call slot: local `period` of updatePeriod
  updatedPeriod,     \* per call slot: local `updatedPeriod`, the value returned
  err,               \* per call slot: message of the Error thrown ("" is none)
  arg,               \* per call slot: arguments <<id, updates>> of updatePeriod
  overlapped,        \* per call slot: another call was in flight when it began
  updatesBegun,      \* number of updatePeriod calls begun
  beforePause,       \* pause period id -> the period it interrupted, as it was
                     \* when the pause began (dropped once that period is edited)
  caught,            \* per call slot: storage operations of the call whose
                     \* failure the StorageService caught and did not rethrow
  tx,                \* the StorageService.transaction() call, if any
  timer,             \* fields of the TimerManager singleton
  reminder,          \* fields of the BreakReminderService singleton
  browser,           \* window / document: live intervals, timeouts, listeners
  ui,                \* the zustand store and the effects mounted on it
  observed,          \* what callers saw: subscriptions made, ticks delivered,
                     \* reminders started, notifications shown
  validation,        \* per call slot: getPeriods() answer and ValidationResult
                     \* of validatePeriodContinuity
  keyboard,          \* fields of the KeyboardShortcutService singleton, and
                     \* how often the last key event invoked a shortcut
  app                \* the AppInitService singleton and its initialize() calls

vars == <<store, nextId, clock, pc, op, now, activePeriod, resumeFromPeriod,
          newPeriod, period, updatedPeriod, err, arg, overlapped, updatesBegun,
          beforePause, caught, tx, timer, reminder, browser, ui, observed,
          validation, keyboard, app>>

\* the state outside PeriodManager and StorageService
auxVars == <<timer, reminder, browser, ui, observed, validation, keyboard, app>>

\* the state of PeriodManager calls and of the periods table
periodVars == <<store, nextId, clock, pc, op, now, activePeriod,
                resumeFromPeriod, newPeriod, period, updatedPeriod, err, arg,
                overlapped, updatesBegun, beforePause, caught, tx>>

----------------------------------------------------------------------------
(* Bounds of the model *)

MaxPeriods == 4

MaxTime == 2

MaxUpdates == 1

MaxUpserts == 2

MaxSubscriptions == 3

MaxHandles == 6

Calls == {1, 2}

----------------------------------------------------------------------------
(* Values *)

\* null of a number-or-null / id-or-null field
Null == -1

\* null of a string-or-null field
NullStr == "null"

\* Partial<TimePeriod> values carrying metadata fields only
MetadataPartials ==
  { [theme |-> "work", category |-> "dev"],
    [theme |-> "", category |-> ""],
    [name |-> "coding", notes |-> "n", tags |-> <<"t">>] }

\* Partial<TimePeriod> values carrying any field but id: metadata, the pause
\* flag and link, and timestamps (0 is a time no period was created at)
FieldPartials ==
  { [name |-> "coding", tags |-> <<"t">>],
    [notes |-> "n", startTime |-> 0, endTime |-> 0, createdAt |-> 0],
    [theme |-> "work", endTime |-> Null, isPaused |-> TRUE],
    [resumeFromPeriodId |-> 1] }

\* Partial<TimePeriod> values that carry an id (0 is an id no period was
\* created with, 1 the id of the first period), the pause flag or the link
IdPartials ==
  { [id |-> 0], [id |-> 1, name |-> "coding"],
    [isPaused |-> TRUE, resumeFromPeriodId |-> 1] }

----------------------------------------------------------------------------
(* StorageService *)

\* JSON.stringify(period.tags)
StringifyTags(tags) == <<"[">> \o tags \o <<"]">>

\* JSON.parse(row.tags || "[]")
ParseTags(text) ==
  IF text = <<>> THEN <<>> ELSE SubSeq(text, 2, Len(text) - 1)

\* the bind array of savePeriod
PeriodToRow(p) ==
  [ id |-> p.id, startTime |-> p.startTime, endTime |-> p.endTime,
    theme |-> p.theme, category |-> p.category, name |-> p.name,
    notes |-> p.notes, tags |-> StringifyTags(p.tags),
    isPaused |-> IF p.isPaused THEN 1 ELSE 0,
    resumeFromPeriodId |-> p.resumeFromPeriodId,
    createdAt |-> p.createdAt, updatedAt |-> p.updatedAt ]

rowToPeriod(row) ==
  [ id |-> row.id, startTime |-> row.startTime, endTime |-> row.endTime,
    theme |-> row.theme, category |-> row.category, name |-> row.name,
    notes |-> row.notes, tags |-> ParseTags(row.tags),
    isPaused |-> (row.isPaused = 1),
    resumeFromPeriodId |-> row.resumeFromPeriodId,
    createdAt |-> row.createdAt, updatedAt |-> row.updatedAt ]

\* a buggy upsert whose ON CONFLICT clause forgets endTime
savePeriodKeepsEndTime(st, p) ==
  IF p.id \in DOMAIN st
    THEN [st EXCEPT ![p.id] =
            [PeriodToRow(p) EXCEPT !.startTime = st[p.id].startTime,
                                   !.createdAt = st[p.id].createdAt,
                                   !.endTime = st[p.id].endTime]]
    ELSE st @@ (p.id :> PeriodToRow(p))

\* INSERT ... ON CONFLICT(id) DO UPDATE SET every column but id, startTime
\* and createdAt.  (SQLite does not enforce the FOREIGN KEY unless the
\* foreign_keys pragma is switched on, which the service never does.)
savePeriod(st, p) ==
  IF p.id \in DOMAIN st
    THEN [st EXCEPT ![p.id] =
            [PeriodToRow(p) EXCEPT !.startTime = st[p.id].startTime,
                                   !.createdAt = st[p.id].createdAt]]
    ELSE st @@ (p.id :> PeriodToRow(p))

\* DELETE FROM periods WHERE id = ?
deletePeriod(st, id) == [i \in DOMAIN st \ {id} |-> st[i]]

\* SELECT * FROM periods WHERE id = ?  (<<>> is null)
getPeriod(st, id) ==
  IF id \in DOMAIN st THEN <<rowToPeriod(st[id])>> ELSE <<>>

OpenIds(st) == {i \in DOMAIN st : st[i].endTime = Null}

\* SELECT ... WHERE endTime IS NULL ORDER BY startTime DESC LIMIT 1:
\* the set of results the query may give (rows that tie on startTime come
\* in an order SQLite does not define); <<>> is null
getActivePeriod(st) ==
  IF OpenIds(st) = {}
    THEN {<<>>}
    ELSE {<<rowToPeriod(st[i])>> :
            i \in {j \in OpenIds(st) :
                     \A k \in OpenIds(st) : st[k].startTime <= st[j].startTime}}

\* PeriodManager.isPaused(): activePeriod?.isPaused || false, for every
\* answer getActivePeriod() may give
isPaused(st) ==
  {IF ap = <<>> THEN FALSE ELSE ap[1].isPaused : ap \in getActivePeriod(st)}

\* ORDER BY startTime DESC: the orders of the rows ids of st in which no row
\* starts later than the one before it
RECURSIVE OrdersDesc(_, _)
OrdersDesc(st, ids) ==
  IF ids = {} THEN {<<>>}
  ELSE UNION {{<<i>> \o o : o \in OrdersDesc(st, ids \ {i})} :
                i \in {j \in ids : \A k \in ids :
                                     st[k].startTime <= st[j].startTime}}

\* SELECT * FROM periods ORDER BY startTime DESC: every order of the rows
\* the query may give
getPeriods(st) ==
  {[i \in 1..Len(f) |-> rowToPeriod(st[f[i]])] : f \in OrdersDesc(st, DOMAIN st)}

----------------------------------------------------------------------------
(* PeriodManager: the objects it builds *)

\* a close that reads Date.now() again instead of using the call's `now`
EndPeriodAtClock(p, t) == [p EXCEPT !.endTime = clock, !.updatedAt = clock]

\* activePeriod.endTime = now; activePeriod.updatedAt = now
EndPeriod(p, t) == [p EXCEPT !.endTime = t, !.updatedAt = t]

\* a new period stamped with the epoch instead of the call's now
DefaultPeriodAtEpoch(id, t) ==
  [ id |-> id, startTime |-> 0, endTime |-> Null,
    theme |-> NullStr, category |-> NullStr, name |-> "", notes |-> "",
    tags |-> <<>>, isPaused |-> FALSE, resumeFromPeriodId |-> Null,
    createdAt |-> t, updatedAt |-> t ]

\* the period literal of transitionPeriod and createInitialPeriod
DefaultPeriod(id, t) ==
  [ id |-> id, startTime |-> t, endTime |-> Null,
    theme |-> NullStr, category |-> NullStr, name |-> "", notes |-> "",
    tags |-> <<>>, isPaused |-> FALSE, resumeFromPeriodId |-> Null,
    createdAt |-> t, updatedAt |-> t ]

\* a pause period that carries the interrupted period's notes and tags
PausePeriodKeepsNotes(id, t, active) ==
  [ id |-> id, startTime |-> t, endTime |-> Null,
    theme |-> "pause", category |-> NullStr, name |-> "Paused",
    notes |-> active.notes, tags |-> active.tags,
    isPaused |-> TRUE, resumeFromPeriodId |-> active.id,
    createdAt |-> t, updatedAt |-> t ]

\* the period literal of the PAUSING branch
PausePeriod(id, t, active) ==
  [ id |-> id, startTime |-> t, endTime |-> Null,
    theme |-> "pause", category |-> NullStr, name |-> "Paused", notes |-> "",
    tags |-> <<>>, isPaused |-> TRUE, resumeFromPeriodId |-> active.id,
    createdAt |-> t, updatedAt |-> t ]

\* x || null on a string-or-null field: the empty string is falsy
OrNull(s) == IF s = NullStr \/ s = "" THEN NullStr ELSE s

\* x || '' on a string field
OrEmpty(s) == IF s = NullStr \/ s = "" THEN "" ELSE s

\* a RESUMING branch that falls back on the pause period's own theme and
\* name when the period it resumes from is gone
ResumedPeriodFromPause(id, t, src) ==
  [ id |-> id, startTime |-> t, endTime |-> Null,
    theme |-> IF src = <<>> THEN "pause" ELSE OrNull(src[1].theme),
    category |-> IF src = <<>> THEN NullStr ELSE OrNull(src[1].category),
    name |-> IF src = <<>> THEN "Paused" ELSE OrEmpty(src[1].name),
    notes |-> IF src = <<>> THEN "" ELSE OrEmpty(src[1].notes),
    tags |-> IF src = <<>> THEN <<>> ELSE src[1].tags,
    isPaused |-> FALSE, resumeFromPeriodId |-> Null,
    createdAt |-> t, updatedAt |-> t ]

\* the period literal of the RESUMING branch; src is resumeFromPeriod
ResumedPeriod(id, t, src) ==
  [ id |-> id, startTime |-> t, endTime |-> Null,
    theme |-> IF src = <<>> THEN NullStr ELSE OrNull(src[1].theme),
    category |-> IF src = <<>> THEN NullStr ELSE OrNull(src[1].category),
    name |-> IF src = <<>> THEN "" ELSE OrEmpty(src[1].name),
    notes |-> IF src = <<>> THEN "" ELSE OrEmpty(src[1].notes),
    tags |-> IF src = <<>> THEN <<>> ELSE src[1].tags,
    isPaused |-> FALSE, resumeFromPeriodId |-> Null,
    createdAt |-> t, updatedAt |-> t ]

\* an updatePeriod without the three delete statements
KeepTimestamps(updates) == updates

\* delete updates.startTime; delete updates.endTime; delete updates.createdAt
DropTimestamps(updates) ==
  [f \in DOMAIN updates \ {"startTime", "endTime", "createdAt"} |-> updates[f]]

\* the spread written in the wrong order: { updatedAt, ...updates, ...period }
MergePeriodWins(p, updates, t) ==
  [f \in DOMAIN p \cup DOMAIN updates |->
     IF f \in DOMAIN p THEN p[f] ELSE updates[f]]

\* { ...period, ...updates, updatedAt: Date.now() }
MergeUpdates(p, updates, t) ==
  [f \in DOMAIN p \cup DOMAIN updates |->
     IF f = "updatedAt" THEN t
     ELSE IF f \in DOMAIN updates THEN updates[f] ELSE p[f]]

----------------------------------------------------------------------------
(* PeriodManager.validatePeriodContinuity *)

IsClosed(p) == p.endTime # Null

\* one step of Array.prototype.sort((a, b) => a.startTime - b.startTime),
\* which is stable: p goes behind every element that does not start later
RECURSIVE InsertByStartTime(_, _)
InsertByStartTime(sorted, p) ==
  IF sorted = <<>> THEN <<p>>
  ELSE IF Head(sorted).startTime <= p.startTime
    THEN <<Head(sorted)>> \o InsertByStartTime(Tail(sorted), p)
    ELSE <<p>> \o sorted

RECURSIVE SortByStartTime(_)
SortByStartTime(ps) ==
  IF ps = <<>> THEN <<>>
  ELSE InsertByStartTime(SortByStartTime(SubSeq(ps, 1, Len(ps) - 1)),
                         ps[Len(ps)])

\* a loop that stops at the first gap or overlap it finds
FirstContinuityError(sortedPeriods) ==
  LET bad == {i \in 1..(Len(sortedPeriods) - 1) :
                sortedPeriods[i].endTime # sortedPeriods[i+1].startTime}
      first == {i \in bad : \A j \in bad : i <= j}
  IN {<<sortedPeriods[i].id, sortedPeriods[i+1].id>> : i \in first}

\* the errors pushed by the loop over adjacent pairs, as <<current.id, next.id>>
ContinuityErrors(sortedPeriods) ==
  LET bad == {i \in 1..(Len(sortedPeriods) - 1) :
                sortedPeriods[i].endTime # sortedPeriods[i+1].startTime}
  IN {<<sortedPeriods[i].id, sortedPeriods[i+1].id>> : i \in bad}

\* the ValidationResult for one answer of getPeriods()
ValidationResult(periods) ==
  LET errors == ContinuityErrors(SortByStartTime(SelectSeq(periods, IsClosed)))
  IN [valid |-> errors = {}, errors |-> errors]

\* every ValidationResult the call may return on store st
validatePeriodContinuity(st) == {ValidationResult(ps) : ps \in getPeriods(st)}

----------------------------------------------------------------------------
(* Call slots *)

LifecycleOps == {"transitionPeriod", "pauseResume"}

Settled == {"idle", "done", "failed"}

InFlight(c) == pc[c] \notin Settled

NoneInFlight == \A c \in Calls : ~InFlight(c)

\* calls in flight that have not yet drawn their generateUUID()
AwaitingId ==
  {c \in Calls : pc[c] \in {"t_read", "t_closed", "p_read", "p_closed", "p_lookup"}}

\* a lifecycle call may begin while an id is left for it
IdLeft == nextId + Cardinality(AwaitingId) <= MaxPeriods

\* a call starts in a free slot with fresh locals; the first storage query
\* is issued before the call's first await, so its answer (ap: the active
\* period, pd: the period looked up) is that of the store as the call began
StartCall(c, o, a, ap, pd) ==
  /\ ~InFlight(c)
  /\ op' = [op EXCEPT ![c] = o]
  /\ now' = [now EXCEPT ![c] = clock]
  /\ activePeriod' = [activePeriod EXCEPT ![c] = ap]
  /\ resumeFromPeriod' = [resumeFromPeriod EXCEPT ![c] = <<>>]
  /\ newPeriod' = [newPeriod EXCEPT ![c] = <<>>]
  /\ period' = [period EXCEPT ![c] = pd]
  /\ updatedPeriod' = [updatedPeriod EXCEPT ![c] = <<>>]
  /\ err' = [err EXCEPT ![c] = ""]
  /\ arg' = [arg EXCEPT ![c] = a]
  /\ overlapped' = [overlapped EXCEPT ![c] = \E d \in Calls \ {c} : InFlight(d)]

\* no transaction() call has been made
NoTransaction ==
  [pc |-> "idle", before |-> <<>>, upserts |-> 0, thrown |-> "", result |-> Null,
   error |-> "", value |-> Null]

\* the two initialize() calls of AppInitService that may be made
InitCalls == {1, 2}

\* AppInitService and StorageService as constructed (storage is
\* storageService.initialized), no initialize() call made, and what the
\* calls have done so far: databases opened, initial periods created,
\* timers started, keyboard services initialized, anonymous
\* visibilitychange listeners added
NoApp ==
  [initialized |-> FALSE, storage |-> FALSE,
   pc |-> [i \in InitCalls |-> "idle"],
   overlapped |-> [i \in InitCalls |-> FALSE],
   found |-> [i \in InitCalls |-> <<>>],
   opens |-> 0, bootstraps |-> 0, starts |-> 0, keyboards |-> 0,
   listeners |-> 0]

\* a KeyboardShortcutService as constructed
NoShortcuts == [handler |-> Null, shortcuts |-> {}, invoked |-> 0]

\* a TimerManager as constructed
NoTimer ==
  [startTime |-> Null, intervalId |-> Null, subscribers |-> <<>>,
   visibilityChangeHandler |-> Null]

Init ==
  /\ store = <<>>
  /\ nextId = 1
  /\ clock = 1
  /\ pc = [c \in Calls |-> "idle"]
  /\ op = [c \in Calls |-> ""]
  /\ now = [c \in Calls |-> Null]
  /\ activePeriod = [c \in Calls |-> <<>>]
  /\ resumeFromPeriod = [c \in Calls |-> <<>>]
  /\ newPeriod = [c \in Calls |-> <<>>]
  /\ period = [c \in Calls |-> <<>>]
  /\ updatedPeriod = [c \in Calls |-> <<>>]
  /\ err = [c \in Calls |-> ""]
  /\ arg = [c \in Calls |-> <<>>]
  /\ overlapped = [c \in Calls |-> FALSE]
  /\ updatesBegun = 0
  /\ beforePause = <<>>
  /\ caught = [c \in Calls |-> <<>>]
  /\ tx = NoTransaction
  /\ timer = NoTimer
  /\ reminder = [timerId |-> Null]
  /\ browser = [intervals |-> {}, timeouts |-> {}, listeners |-> {},
                keydown |-> {}, handles |-> 0]
  /\ ui = [activePeriod |-> <<>>, isPaused |-> FALSE, timerFor |-> Null,
           pendingEdit |-> <<>>]
  /\ observed = [subscriptions |-> <<>>, delivered |-> <<>>, reminders |-> 0,
                 notifications |-> 0, startedFor |-> Null, editFor |-> Null]
  /\ validation = [c \in Calls |-> <<>>]
  /\ keyboard = NoShortcuts
  /\ app = NoApp

\* Date.now() advances
Tick ==
  /\ clock < MaxTime
  /\ clock' = clock + 1
  /\ UNCHANGED <<store, nextId, pc, op, now, activePeriod, resumeFromPeriod,
                 newPeriod, period, updatedPeriod, err, arg, overlapped,
                 updatesBegun,
                 beforePause,
                 caught, tx, auxVars>>

----------------------------------------------------------------------------
(* PeriodManager.transitionPeriod *)

\* const now = Date.now(); const activePeriod = await getActivePeriod()
BeginTransition(c) ==
  /\ IdLeft
  /\ \E a \in getActivePeriod(store) :
       StartCall(c, "transitionPeriod", <<>>, a, <<>>)
  /\ pc' = [pc EXCEPT ![c] = "t_read"]
  /\ UNCHANGED <<store, nextId, clock, updatesBegun,
                 beforePause,
                 tx, auxVars>>
  /\ caught' = [caught EXCEPT ![c] = <<>>]

\* a close that also wipes the notes of the period it ends
TransitionEndCurrentWipesNotes(c) ==
  /\ pc[c] = "t_read"
  /\ activePeriod[c] # <<>>
  /\ LET closed == [EndPeriod(activePeriod[c][1], now[c]) EXCEPT !.notes = ""]
     IN /\ activePeriod' = [activePeriod EXCEPT ![c] = <<closed>>]
        /\ store' = savePeriod(store, closed)
  /\ pc' = [pc EXCEPT ![c] = "t_closed"]
  /\ UNCHANGED <<nextId, clock, op, now, resumeFromPeriod, newPeriod, period,
                 updatedPeriod, err, arg, overlapped, updatesBegun,
                 beforePause,
                 caught, tx, auxVars>>

\* if (activePeriod) { endTime = now; updatedAt = now; await savePeriod }
TransitionEndCurrent(c) ==
  /\ pc[c] = "t_read"
  /\ activePeriod[c] # <<>>
  /\ LET closed == EndPeriod(activePeriod[c][1], now[c])
     IN /\ activePeriod' = [activePeriod EXCEPT ![c] = <<closed>>]
        /\ store' = savePeriod(store, closed)
  /\ pc' = [pc EXCEPT ![c] = "t_closed"]
  /\ UNCHANGED <<nextId, clock, op, now, resumeFromPeriod, newPeriod, period,
                 updatedPeriod, err, arg, overlapped, updatesBegun,
                 beforePause,
                 caught, tx, auxVars>>

\* a transition whose new period carries on the closed period's metadata
\* and pause flag
TransitionStartNewInherits(c) ==
  /\ \/ pc[c] = "t_closed"
     \/ pc[c] = "t_read" /\ activePeriod[c] = <<>>
  /\ LET d == DefaultPeriod(nextId, now[c])
         np == IF activePeriod[c] = <<>> THEN d
               ELSE [d EXCEPT !.theme = activePeriod[c][1].theme,
                              !.name = activePeriod[c][1].name,
                              !.isPaused = activePeriod[c][1].isPaused]
     IN /\ newPeriod' = [newPeriod EXCEPT ![c] = <<np>>]
        /\ store' = savePeriod(store, np)
  /\ nextId' = nextId + 1
  /\ pc' = [pc EXCEPT ![c] = "t_saved"]
  /\ UNCHANGED <<clock, op, now, activePeriod, resumeFromPeriod, period,
                 updatedPeriod, err, arg, overlapped, updatesBegun,
                 beforePause, caught, tx, auxVars>>

\* const newPeriod = {...}; await savePeriod(newPeriod)
TransitionStartNew(c) ==
  /\ \/ pc[c] = "t_closed"
     \/ pc[c] = "t_read" /\ activePeriod[c] = <<>>
  /\ LET np == DefaultPeriod(nextId, now[c])
     IN /\ newPeriod' = [newPeriod EXCEPT ![c] = <<np>>]
        /\ store' = savePeriod(store, np)
  /\ nextId' = nextId + 1
  /\ pc' = [pc EXCEPT ![c] = "t_saved"]
  /\ UNCHANGED <<clock, op, now, activePeriod, resumeFromPeriod, period,
                 updatedPeriod, err, arg, overlapped, updatesBegun,
                 beforePause,
                 caught, tx, auxVars>>

\* return newPeriod
TransitionReturn(c) ==
  /\ pc[c] = "t_saved"
  /\ pc' = [pc EXCEPT ![c] = "done"]
  /\ UNCHANGED <<store, nextId, clock, op, now, activePeriod, resumeFromPeriod,
                 newPeriod, period, updatedPeriod, err, arg, overlapped,
                 updatesBegun,
                 beforePause,
                 caught, tx, auxVars>>

----------------------------------------------------------------------------
(* PeriodManager.pauseResume *)

\* const now = Date.now(); const activePeriod = await getActivePeriod()
BeginPauseResume(c) ==
  /\ IdLeft
  /\ \E a \in getActivePeriod(store) :
       StartCall(c, "pauseResume", <<>>, a, <<>>)
  /\ pc' = [pc EXCEPT ![c] = "p_read"]
  /\ UNCHANGED <<store, nextId, clock, updatesBegun,
                 beforePause,
                 tx, auxVars>>
  /\ caught' = [caught EXCEPT ![c] = <<>>]

\* a pauseResume that goes on without an active period as transitionPeriod
\* does: it opens a default period instead of throwing
PauseResumeOpensWhenNoActive(c) ==
  /\ pc[c] = "p_read"
  /\ activePeriod[c] = <<>>
  /\ LET np == DefaultPeriod(nextId, now[c])
     IN /\ newPeriod' = [newPeriod EXCEPT ![c] = <<np>>]
        /\ store' = savePeriod(store, np)
  /\ nextId' = nextId + 1
  /\ pc' = [pc EXCEPT ![c] = "failed"]
  /\ err' = [err EXCEPT ![c] = "No active period found"]
  /\ UNCHANGED <<clock, op, now, activePeriod, resumeFromPeriod, period,
                 updatedPeriod, arg, overlapped, updatesBegun,
                 beforePause,
                 caught, tx, auxVars>>

\* if (!activePeriod) throw new Error('No active period found')
PauseResumeNoActive(c) ==
  /\ pc[c] = "p_read"
  /\ activePeriod[c] = <<>>
  /\ pc' = [pc EXCEPT ![c] = "failed"]
  /\ err' = [err EXCEPT ![c] = "No active period found"]
  /\ UNCHANGED <<store, nextId, clock, op, now, activePeriod, resumeFromPeriod,
                 newPeriod, period, updatedPeriod, arg, overlapped,
                 updatesBegun,
                 beforePause,
                 caught, tx, auxVars>>

\* activePeriod.endTime = now; updatedAt = now; await savePeriod(activePeriod)
\* (isPausedNow is activePeriod.isPaused, which this leaves as it was)
PauseResumeEndCurrent(c) ==
  /\ pc[c] = "p_read"
  /\ activePeriod[c] # <<>>
  /\ LET closed == EndPeriod(activePeriod[c][1], now[c])
     IN /\ activePeriod' = [activePeriod EXCEPT ![c] = <<closed>>]
        /\ store' = savePeriod(store, closed)
  /\ pc' = [pc EXCEPT ![c] = "p_closed"]
  /\ UNCHANGED <<nextId, clock, op, now, resumeFromPeriod, newPeriod, period,
                 updatedPeriod, err, arg, overlapped, updatesBegun,
                 beforePause,
                 caught, tx, auxVars>>

\* RESUMING: resumeFromPeriod = resumeFromPeriodId ? await getPeriod(..) : null
PauseResumeLookup(c) ==
  /\ pc[c] = "p_closed"
  /\ activePeriod[c][1].isPaused
  /\ resumeFromPeriod' =
       [resumeFromPeriod EXCEPT ![c] =
          IF activePeriod[c][1].resumeFromPeriodId # Null
            THEN getPeriod(store, activePeriod[c][1].resumeFromPeriodId)
            ELSE <<>>]
  /\ pc' = [pc EXCEPT ![c] = "p_lookup"]
  /\ UNCHANGED <<store, nextId, clock, op, now, activePeriod, newPeriod, period,
                 updatedPeriod, err, arg, overlapped, updatesBegun,
                 beforePause,
                 caught, tx, auxVars>>

\* a pauseResume whose second branch never runs: it opens a pause period
\* whatever the period it closed was
PauseResumeAlwaysPauses(c) ==
  /\ \/ pc[c] = "p_lookup"
     \/ pc[c] = "p_closed" /\ ~activePeriod[c][1].isPaused
  /\ LET np == PausePeriod(nextId, now[c], activePeriod[c][1])
     IN /\ newPeriod' = [newPeriod EXCEPT ![c] = <<np>>]
        /\ store' = savePeriod(store, np)
  /\ beforePause' = IF activePeriod[c][1].isPaused
                      THEN beforePause
                      ELSE beforePause @@ (nextId :> activePeriod[c][1])
  /\ nextId' = nextId + 1
  /\ pc' = [pc EXCEPT ![c] = "p_saved"]
  /\ UNCHANGED <<clock, op, now, activePeriod, resumeFromPeriod, period,
                 updatedPeriod, err, arg, overlapped, updatesBegun,
                 caught, tx, auxVars>>

\* newPeriod = {...} of the branch taken; await savePeriod(newPeriod)
PauseResumeStartNew(c) ==
  /\ \/ pc[c] = "p_lookup"
     \/ pc[c] = "p_closed" /\ ~activePeriod[c][1].isPaused
  /\ LET np == IF activePeriod[c][1].isPaused
                 THEN ResumedPeriod(nextId, now[c], resumeFromPeriod[c])
                 ELSE PausePeriod(nextId, now[c], activePeriod[c][1])
     IN /\ newPeriod' = [newPeriod EXCEPT ![c] = <<np>>]
        /\ store' = savePeriod(store, np)
  /\ beforePause' = IF activePeriod[c][1].isPaused
                      THEN beforePause
                      ELSE beforePause @@ (nextId :> activePeriod[c][1])
  /\ nextId' = nextId + 1
  /\ pc' = [pc EXCEPT ![c] = "p_saved"]
  /\ UNCHANGED <<clock, op, now, activePeriod, resumeFromPeriod, period,
                 updatedPeriod, err, arg, overlapped, updatesBegun,
                 caught, tx, auxVars>>

\* return newPeriod
PauseResumeReturn(c) ==
  /\ pc[c] = "p_saved"
  /\ pc' = [pc EXCEPT ![c] = "done"]
  /\ UNCHANGED <<store, nextId, clock, op, now, activePeriod, resumeFromPeriod,
                 newPeriod, period, updatedPeriod, err, arg, overlapped,
                 updatesBegun,
                 beforePause,
                 caught, tx, auxVars>>

----------------------------------------------------------------------------
(* PeriodManager.updatePeriod *)

\* const period = await getPeriod(id); id is a stored id or one that is not
BeginUpdate(c, partials) ==
  /\ updatesBegun < MaxUpdates
  /\ \E id \in DOMAIN store \cup {nextId}, u \in partials :
       StartCall(c, "updatePeriod", <<id, u>>, <<>>, getPeriod(store, id))
  /\ pc' = [pc EXCEPT ![c] = "u_read"]
  /\ updatesBegun' = updatesBegun + 1
  /\ UNCHANGED <<store, nextId, clock, beforePause,
                 tx, auxVars>>
  /\ caught' = [caught EXCEPT ![c] = <<>>]

\* an updatePeriod without the existence check: it saves the updates as a
\* new period under the id it was given
UpdateInsertsWhenNotFound(c) ==
  /\ pc[c] = "u_read"
  /\ period[c] = <<>>
  /\ LET up == MergeUpdates(DefaultPeriod(arg[c][1], clock),
                            DropTimestamps(arg[c][2]), clock)
     IN /\ updatedPeriod' = [updatedPeriod EXCEPT ![c] = <<up>>]
        /\ store' = savePeriod(store, up)
  /\ pc' = [pc EXCEPT ![c] = "u_saved"]
  /\ UNCHANGED <<nextId, clock, op, now, activePeriod, resumeFromPeriod,
                 newPeriod, period, err, arg, overlapped, updatesBegun,
                 beforePause, caught, tx, auxVars>>

\* if (!period) throw new Error(`Period not found: ${id}`)
UpdateNotFound(c) ==
  /\ pc[c] = "u_read"
  /\ period[c] = <<>>
  /\ pc' = [pc EXCEPT ![c] = "failed"]
  /\ err' = [err EXCEPT ![c] = "Period not found"]
  /\ UNCHANGED <<store, nextId, clock, op, now, activePeriod, resumeFromPeriod,
                 newPeriod, period, updatedPeriod, arg, overlapped,
                 updatesBegun,
                 beforePause,
                 caught, tx, auxVars>>

\* updatedPeriod = {...period, ...updates, updatedAt: Date.now()};
\* await savePeriod(updatedPeriod)
UpdateSave(c) ==
  /\ pc[c] = "u_read"
  /\ period[c] # <<>>
  /\ LET up == MergeUpdates(period[c][1], DropTimestamps(arg[c][2]), clock)
     IN /\ updatedPeriod' = [updatedPeriod EXCEPT ![c] = <<up>>]
        /\ store' = savePeriod(store, up)
        /\ beforePause' = [i \in {j \in DOMAIN beforePause :
                                    beforePause[j].id # up.id} |-> beforePause[i]]
  /\ pc' = [pc EXCEPT ![c] = "u_saved"]
  /\ UNCHANGED <<nextId, clock, op, now, activePeriod, resumeFromPeriod,
                 newPeriod, period, err, arg, overlapped, updatesBegun,
                 caught, tx, auxVars>>

\* return updatedPeriod
UpdateReturn(c) ==
  /\ pc[c] = "u_saved"
  /\ pc' = [pc EXCEPT ![c] = "done"]
  /\ UNCHANGED <<store, nextId, clock, op, now, activePeriod, resumeFromPeriod,
                 newPeriod, period, updatedPeriod, err, arg, overlapped,
                 updatesBegun,
                 beforePause,
                 caught, tx, auxVars>>

----------------------------------------------------------------------------
(* Deleting history *)

\* storageService.deletePeriod(id) on a period of the history (one that has
\* ended)
DeletePeriod(id) ==
  /\ id \in DOMAIN store
  /\ store[id].endTime # Null
  /\ store' = deletePeriod(store, id)
  /\ UNCHANGED <<nextId, clock, pc, op, now, activePeriod, resumeFromPeriod,
                 newPeriod, period, updatedPeriod, err, arg, overlapped,
                 updatesBegun, beforePause, caught, tx, auxVars>>

----------------------------------------------------------------------------
(* validatePeriodContinuity as a call *)

\* validatePeriodContinuity() up to its await: getPeriods() is issued and
\* answered with the rows in one of the orders the query may give (`before`
\* remembers the store the call found)
BeginValidate(c) ==
  /\ StartCall(c, "validatePeriodContinuity", <<>>, <<>>, <<>>)
  /\ pc' = [pc EXCEPT ![c] = "v_read"]
  /\ \E ps \in getPeriods(store) :
       validation' = [validation EXCEPT ![c] =
                        <<[before |-> store, periods |-> ps,
                           result |-> [valid |-> TRUE, errors |-> {}]]>>]
  /\ caught' = [caught EXCEPT ![c] = <<>>]
  /\ UNCHANGED <<store, nextId, clock, updatesBegun, beforePause, tx,
                 timer, reminder, browser, ui, observed, keyboard, app>>

\* the rest of the call: filter, sort, the loop over adjacent pairs, return
ValidateReturn(c) ==
  /\ pc[c] = "v_read"
  /\ pc' = [pc EXCEPT ![c] = "done"]
  /\ validation' = [validation EXCEPT ![c] =
                      <<[validation[c][1] EXCEPT
                           !.result = ValidationResult(validation[c][1].periods)]>>]
  /\ UNCHANGED <<store, nextId, clock, op, now, activePeriod, resumeFromPeriod,
                 newPeriod, period, updatedPeriod, err, arg, overlapped,
                 updatesBegun, beforePause, caught, tx,
                 timer, reminder, browser, ui, observed, keyboard, app>>

----------------------------------------------------------------------------
(* Storage failures: the worker rejects an exec request *)

\* messages of the Errors the StorageService throws when a request fails
StoreErrors == {"Failed to save period", "Failed to get period"}

\* transitionPeriod whose getActivePeriod() query fails: the service logs
\* 'Failed to get active period' in its catch block and returns null
BeginTransitionReadFails(c) ==
  /\ IdLeft
  /\ StartCall(c, "transitionPeriod", <<>>, <<>>, <<>>)
  /\ pc' = [pc EXCEPT ![c] = "t_read"]
  /\ caught' = [caught EXCEPT ![c] = <<"getActivePeriod">>]
  /\ UNCHANGED <<store, nextId, clock, updatesBegun, beforePause, tx, auxVars>>

\* pauseResume whose getActivePeriod() query fails: null as well
BeginPauseResumeReadFails(c) ==
  /\ IdLeft
  /\ StartCall(c, "pauseResume", <<>>, <<>>, <<>>)
  /\ pc' = [pc EXCEPT ![c] = "p_read"]
  /\ caught' = [caught EXCEPT ![c] = <<"getActivePeriod">>]
  /\ UNCHANGED <<store, nextId, clock, updatesBegun, beforePause, tx, auxVars>>

\* the call's next step is a savePeriod
AboutToSave(c) ==
  \/ pc[c] \in {"t_read", "t_closed", "p_lookup"}
  \/ pc[c] = "p_read" /\ activePeriod[c] # <<>>
  \/ pc[c] = "p_closed" /\ ~activePeriod[c][1].isPaused

\* savePeriod fails: the service rethrows 'Failed to save period: ...' and
\* PeriodManager, which has no try/catch, lets it reach the caller
SavePeriodFails(c) ==
  /\ AboutToSave(c)
  /\ pc' = [pc EXCEPT ![c] = "failed"]
  /\ err' = [err EXCEPT ![c] = "Failed to save period"]
  /\ UNCHANGED <<store, nextId, clock, op, now, activePeriod, resumeFromPeriod,
                 newPeriod, period, updatedPeriod, arg, overlapped,
                 updatesBegun, beforePause, caught, tx, auxVars>>

\* the getPeriod() lookup of the RESUMING branch fails: the service rethrows
\* 'Failed to get period: ...'
GetPeriodFails(c) ==
  /\ pc[c] = "p_closed"
  /\ activePeriod[c][1].isPaused
  /\ activePeriod[c][1].resumeFromPeriodId # Null
  /\ pc' = [pc EXCEPT ![c] = "failed"]
  /\ err' = [err EXCEPT ![c] = "Failed to get period"]
  /\ UNCHANGED <<store, nextId, clock, op, now, activePeriod, resumeFromPeriod,
                 newPeriod, period, updatedPeriod, arg, overlapped,
                 updatesBegun, beforePause, caught, tx, auxVars>>

----------------------------------------------------------------------------
(* StorageService.transaction *)

TxSettled == tx.pc \in {"idle", "done", "failed"}

\* values a callback may return, errors it may throw
CallbackResults == {0, 1}

CallbackErrors == {"E1", "E2"}

\* await exec 'BEGIN TRANSACTION': the database keeps the state to roll
\* back to
TransactionBegin ==
  /\ TxSettled
  /\ NoneInFlight
  /\ tx' = [NoTransaction EXCEPT !.pc = "callback", !.before = store]
  /\ UNCHANGED <<store, nextId, clock, pc, op, now, activePeriod,
                 resumeFromPeriod, newPeriod, period, updatedPeriod, err, arg,
                 overlapped, updatesBegun, beforePause, caught, auxVars>>

\* the periods a callback saves: the open period closed now, or a new one
CallbackPeriods ==
  {EndPeriod(rowToPeriod(store[i]), clock) : i \in OpenIds(store)}
    \cup {DefaultPeriod(nextId, clock)}

\* the callback awaits a savePeriod
CallbackSavePeriod ==
  /\ tx.pc = "callback"
  /\ tx.upserts < MaxUpserts
  /\ \E p \in CallbackPeriods :
       /\ p.id <= MaxPeriods
       /\ store' = savePeriod(store, p)
       /\ nextId' = IF p.id = nextId THEN nextId + 1 ELSE nextId
  /\ tx' = [tx EXCEPT !.upserts = tx.upserts + 1]
  /\ UNCHANGED <<clock, pc, op, now, activePeriod,
                 resumeFromPeriod, newPeriod, period, updatedPeriod, err, arg,
                 overlapped, updatesBegun, beforePause, caught, auxVars>>

\* const result = await callback()
CallbackReturns ==
  /\ tx.pc = "callback"
  /\ \E r \in CallbackResults : tx' = [tx EXCEPT !.pc = "returned", !.result = r]
  /\ UNCHANGED <<store, nextId, clock, pc, op, now, activePeriod,
                 resumeFromPeriod, newPeriod, period, updatedPeriod, err, arg,
                 overlapped, updatesBegun, beforePause, caught, auxVars>>

\* the callback throws (its promise rejects)
CallbackThrows ==
  /\ tx.pc = "callback"
  /\ \E e \in CallbackErrors : tx' = [tx EXCEPT !.pc = "threw", !.thrown = e]
  /\ UNCHANGED <<store, nextId, clock, pc, op, now, activePeriod,
                 resumeFromPeriod, newPeriod, period, updatedPeriod, err, arg,
                 overlapped, updatesBegun, beforePause, caught, auxVars>>

\* await exec 'COMMIT'; return result
TransactionCommit ==
  /\ tx.pc = "returned"
  /\ tx' = [tx EXCEPT !.pc = "done", !.value = tx.result]
  /\ UNCHANGED <<store, nextId, clock, pc, op, now, activePeriod,
                 resumeFromPeriod, newPeriod, period, updatedPeriod, err, arg,
                 overlapped, updatesBegun, beforePause, caught, auxVars>>

\* a catch block that rethrows without the ROLLBACK
TransactionRethrowOnly ==
  /\ tx.pc = "threw"
  /\ tx' = [tx EXCEPT !.pc = "failed", !.error = tx.thrown]
  /\ UNCHANGED <<store, nextId, clock, pc, op, now, activePeriod,
                 resumeFromPeriod, newPeriod, period, updatedPeriod, err, arg,
                 overlapped, updatesBegun, beforePause, caught, auxVars>>

\* catch (error) { await exec 'ROLLBACK'; throw error }
TransactionRollback ==
  /\ tx.pc = "threw"
  /\ store' = tx.before
  /\ tx' = [tx EXCEPT !.pc = "failed", !.error = tx.thrown]
  /\ UNCHANGED <<nextId, clock, pc, op, now, activePeriod,
                 resumeFromPeriod, newPeriod, period, updatedPeriod, err, arg,
                 overlapped, updatesBegun, beforePause, caught, auxVars>>

----------------------------------------------------------------------------
(* PeriodManager.recoverIncompleteSession *)

\* the argument lists the caller may pass: none, or a lastKnownCloseTime
\* (the method declares no parameter, so the value is not read)
CloseTimeArgs == {<<>>} \cup {<<t>> : t \in 1..clock}

\* the caller invokes recoverIncompleteSession
BeginRecover(c) ==
  /\ \E a \in CloseTimeArgs :
       StartCall(c, "recoverIncompleteSession", a, <<>>, <<>>)
  /\ pc' = [pc EXCEPT ![c] = "r_called"]
  /\ caught' = [caught EXCEPT ![c] = <<>>]
  /\ UNCHANGED <<store, nextId, clock, updatesBegun, beforePause, tx, auxVars>>

\* a recovery that always opens a fresh default period
RecoverOpensPeriod(c) ==
  /\ pc[c] = "r_called"
  /\ nextId <= MaxPeriods
  /\ store' = savePeriod(store, DefaultPeriod(nextId, now[c]))
  /\ nextId' = nextId + 1
  /\ pc' = [pc EXCEPT ![c] = "done"]
  /\ UNCHANGED <<clock, op, now, activePeriod, resumeFromPeriod,
                 newPeriod, period, updatedPeriod, err, arg, overlapped,
                 updatesBegun, beforePause, caught, tx, auxVars>>

\* the body: console.log('Checking for incomplete sessions...') and nothing
\* else (the recovery logic is a TODO); the promise resolves
recoverIncompleteSession(c) ==
  /\ pc[c] = "r_called"
  /\ pc' = [pc EXCEPT ![c] = "done"]
  /\ UNCHANGED <<store, nextId, clock, op, now, activePeriod, resumeFromPeriod,
                 newPeriod, period, updatedPeriod, err, arg, overlapped,
                 updatesBegun, beforePause, caught, tx, auxVars>>

\* the page is closed or reloaded while a call is in flight: the rest of the
\* call never runs, the writes it has issued stay in the database
Reload(c) ==
  /\ InFlight(c)
  /\ pc' = [pc EXCEPT ![c] = "idle"]
  /\ UNCHANGED <<store, nextId, clock, op, now, activePeriod, resumeFromPeriod,
                 newPeriod, period, updatedPeriod, err, arg, overlapped,
                 updatesBegun, beforePause, caught, tx, auxVars>>

----------------------------------------------------------------------------
(* TimerManager *)

\* callback functions handed to subscribe; "bad" throws when it is called
Callbacks == {"f", "g", "bad"}

\* Set.prototype.add on a Set kept in insertion order
SetAdd(set, x) ==
  IF \E i \in DOMAIN set : set[i] = x THEN set ELSE Append(set, x)

\* Set.prototype.delete
SetDelete(set, x) == SelectSeq(set, LAMBDA y : y # x)

\* getElapsedTime()
getElapsedTime(t) == IF t.startTime = Null THEN 0 ELSE clock - t.startTime

\* the forEach of the earlier TimerManager, without try/catch: the first
\* callback that throws ends the loop
NotifyUntilThrow(t) ==
  LET n == Len(t.subscribers)
      stop == IF \E i \in 1..n : t.subscribers[i] = "bad"
                THEN CHOOSE i \in 1..n :
                       /\ t.subscribers[i] = "bad"
                       /\ \A j \in 1..(i-1) : t.subscribers[j] # "bad"
                ELSE n
  IN [i \in 1..stop |-> [cb |-> t.subscribers[i], elapsed |-> getElapsedTime(t)]]

\* notifySubscribers(): the calls it makes, in order; an error thrown by a
\* callback is caught and logged inside the loop
notifySubscribers(t) ==
  [i \in 1..Len(t.subscribers) |->
     [cb |-> t.subscribers[i], elapsed |-> getElapsedTime(t)]]

\* the fields and the window after stop()
StoppedTimer(t) ==
  [t EXCEPT !.intervalId = Null, !.visibilityChangeHandler = Null,
            !.startTime = Null]

\* a stop() that forgets removeEventListener
StoppedBrowserKeepsListener(t, b) ==
  [b EXCEPT !.intervals = b.intervals \ {t.intervalId}]

StoppedBrowser(t, b) ==
  [b EXCEPT !.intervals = b.intervals \ {t.intervalId},
            !.listeners = b.listeners \ {t.visibilityChangeHandler}]

\* the fields and the window after start(p): stop(), startTime,
\* setInterval, setupVisibilityHandler
StartedTimer(t, b, p) ==
  [StoppedTimer(t) EXCEPT !.startTime = p.startTime,
                          !.intervalId = b.handles + 1,
                          !.visibilityChangeHandler = b.handles + 2]

StartedBrowser(t, b) ==
  LET sb == StoppedBrowser(t, b)
  IN [sb EXCEPT !.intervals = sb.intervals \cup {b.handles + 1},
                !.listeners = sb.listeners \cup {b.handles + 2},
                !.handles = b.handles + 2]

\* start(period), ending with the immediate notifySubscribers()
TimerStart(p) ==
  /\ browser.handles + 2 <= MaxHandles
  /\ timer' = StartedTimer(timer, browser, p)
  /\ browser' = StartedBrowser(timer, browser)
  /\ observed' = [observed EXCEPT
                     !.delivered = notifySubscribers(StartedTimer(timer, browser, p)),
                     !.startedFor = p.startTime]
  /\ UNCHANGED <<periodVars, reminder, ui, validation, keyboard, app>>

\* stop()
TimerStop ==
  /\ timer' = StoppedTimer(timer)
  /\ browser' = StoppedBrowser(timer, browser)
  /\ UNCHANGED <<periodVars, reminder, ui, observed, validation, keyboard, app>>

\* subscribe(callback); the caller keeps the unsubscribe function returned
Subscribe(cb) ==
  /\ Len(observed.subscriptions) < MaxSubscriptions
  /\ timer' = [timer EXCEPT !.subscribers = SetAdd(timer.subscribers, cb)]
  /\ observed' = [observed EXCEPT !.subscriptions =
                     Append(observed.subscriptions, [cb |-> cb, live |-> TRUE])]
  /\ UNCHANGED <<periodVars, reminder, browser, ui, validation, keyboard, app>>

\* the unsubscribe function returned by the i-th subscribe call is invoked
Unsubscribe(i) ==
  /\ i \in DOMAIN observed.subscriptions
  /\ observed.subscriptions[i].live
  /\ timer' = [timer EXCEPT !.subscribers =
                  SetDelete(timer.subscribers, observed.subscriptions[i].cb)]
  /\ observed' = [observed EXCEPT !.subscriptions[i].live = FALSE]
  /\ UNCHANGED <<periodVars, reminder, browser, ui, validation, keyboard, app>>

\* a live interval fires: () => this.notifySubscribers()
IntervalFires ==
  /\ browser.intervals # {}
  /\ observed' = [observed EXCEPT !.delivered = notifySubscribers(timer)]
  /\ UNCHANGED <<periodVars, timer, reminder, browser, ui, validation, keyboard, app>>

\* the tab becomes visible: a registered visibilitychange handler runs
VisibilityChange ==
  /\ browser.listeners # {}
  /\ observed' = [observed EXCEPT !.delivered = notifySubscribers(timer)]
  /\ UNCHANGED <<periodVars, timer, reminder, browser, ui, validation, keyboard, app>>

----------------------------------------------------------------------------
(* KeyboardShortcutService *)

\* normalized keys the UI registers
ShortcutKeys == {"space", "Alt+Space"}

\* initialize(): this.handler = (e) => {...}; addEventListener('keydown', ..)
KeyboardInitialize ==
  /\ browser.handles + 1 <= MaxHandles
  /\ keyboard' = [keyboard EXCEPT !.handler = browser.handles + 1]
  /\ browser' = [browser EXCEPT !.keydown = @ \cup {browser.handles + 1},
                                !.handles = @ + 1]
  /\ UNCHANGED <<periodVars, timer, reminder, ui, observed, validation, app>>

\* register(key, handler)
KeyboardRegister(key) ==
  /\ keyboard' = [keyboard EXCEPT !.shortcuts = @ \cup {key}]
  /\ UNCHANGED <<periodVars, timer, reminder, browser, ui, observed,
                 validation, app>>

\* cleanup(): removeEventListener of the handler held, shortcuts.clear()
\* (no key event has been delivered since)
KeyboardCleanup ==
  /\ keyboard' = NoShortcuts
  /\ browser' = [browser EXCEPT !.keydown = @ \ {keyboard.handler}]
  /\ UNCHANGED <<periodVars, timer, reminder, ui, observed, validation, app>>

\* a keydown event outside an input field: every listener attached to the
\* document runs and calls the shortcut registered for the key, if any
KeyDown(key) ==
  /\ browser.keydown # {}
  /\ keyboard' = [keyboard EXCEPT !.invoked =
                    IF key \in keyboard.shortcuts
                      THEN Cardinality(browser.keydown) ELSE 0]
  /\ UNCHANGED <<periodVars, timer, reminder, browser, ui, observed,
                 validation, app>>

----------------------------------------------------------------------------
(* BreakReminderService *)

\* the field and the window after cancelReminder()
CancelledReminder(r) == [r EXCEPT !.timerId = Null]

CancelledBrowser(r, b) == [b EXCEPT !.timeouts = b.timeouts \ {r.timerId}]

\* a startReminder that does not cancel the reminder already pending
StartReminderNoCancel ==
  /\ browser.handles + 1 <= MaxHandles
  /\ LET h == browser.handles + 1
     IN /\ reminder' = [reminder EXCEPT !.timerId = h]
        /\ browser' = [browser EXCEPT !.timeouts = browser.timeouts \cup {h},
                                      !.handles = h]
  /\ observed' = [observed EXCEPT !.reminders = observed.reminders + 1]
  /\ UNCHANGED <<periodVars, timer, ui, validation, keyboard, app>>

\* startReminder(durationMinutes): cancelReminder(), then setTimeout
StartReminder ==
  /\ browser.handles + 1 <= MaxHandles
  /\ LET h == browser.handles + 1
         b == CancelledBrowser(reminder, browser)
     IN /\ reminder' = [reminder EXCEPT !.timerId = h]
        /\ browser' = [b EXCEPT !.timeouts = b.timeouts \cup {h}, !.handles = h]
  /\ observed' = [observed EXCEPT !.reminders = observed.reminders + 1]
  /\ UNCHANGED <<periodVars, timer, ui, validation, keyboard, app>>

\* cancelReminder() while a reminder is recorded
CancelReminder ==
  /\ reminder.timerId # Null
  /\ reminder' = CancelledReminder(reminder)
  /\ browser' = CancelledBrowser(reminder, browser)
  /\ UNCHANGED <<periodVars, timer, ui, observed, validation, keyboard, app>>

\* a pending timeout fires: showNotification(); this.timerId = null
ReminderFires ==
  /\ \E h \in browser.timeouts :
       browser' = [browser EXCEPT !.timeouts = browser.timeouts \ {h}]
  /\ reminder' = [reminder EXCEPT !.timerId = Null]
  /\ observed' = [observed EXCEPT !.notifications = observed.notifications + 1]
  /\ UNCHANGED <<periodVars, timer, ui, validation, keyboard, app>>

\* isActive()
isActive(r) == r.timerId # Null

----------------------------------------------------------------------------
(* AppInitService *)

InitInFlight(i) == app.pc[i] \notin {"idle", "done"}

\* initialize() up to its first await: the initialized guard, then
\* storageService.init(), which starts opening the database unless its own
\* initialized flag is set
AppInitialize(i) ==
  /\ app.pc[i] = "idle"
  /\ app' = IF app.initialized
              THEN [app EXCEPT !.pc[i] = "done"]
              ELSE [app EXCEPT
                      !.pc[i] = "storage",
                      !.overlapped[i] = \E j \in InitCalls \ {i} : InitInFlight(j),
                      !.opens = IF app.storage THEN @ ELSE @ + 1]
  /\ UNCHANGED <<periodVars, timer, reminder, browser, ui, observed,
                 validation, keyboard>>

\* storageService.init() resolves (initialized = true); periodManager
\* .initialize() is called and issues its getActivePeriod()
AppStorageReady(i) ==
  /\ app.pc[i] = "storage"
  /\ \E ap \in getActivePeriod(store) :
       app' = [app EXCEPT !.pc[i] = "periods", !.storage = TRUE,
                          !.found[i] = ap]
  /\ UNCHANGED <<periodVars, timer, reminder, browser, ui, observed,
                 validation, keyboard>>

\* periodManager.initialize() goes on: createInitialPeriod() when it found
\* no active period
AppBootstrap(i) ==
  /\ app.pc[i] = "periods"
  /\ IF app.found[i] = <<>>
       THEN /\ nextId <= MaxPeriods
            /\ store' = savePeriod(store, DefaultPeriod(nextId, clock))
            /\ nextId' = nextId + 1
            /\ app' = [app EXCEPT !.pc[i] = "created", !.bootstraps = @ + 1]
       ELSE /\ app' = [app EXCEPT !.pc[i] = "created"]
            /\ UNCHANGED <<store, nextId>>
  /\ UNCHANGED <<clock, pc, op, now, activePeriod, resumeFromPeriod,
                 newPeriod, period, updatedPeriod, err, arg, overlapped,
                 updatesBegun, beforePause, caught, tx,
                 timer, reminder, browser, ui, observed, validation, keyboard>>

\* const activePeriod = await periodManager.getActivePeriod(): issued
AppReadActive(i) ==
  /\ app.pc[i] = "created"
  /\ \E ap \in getActivePeriod(store) :
       app' = [app EXCEPT !.pc[i] = "active", !.found[i] = ap]
  /\ UNCHANGED <<periodVars, timer, reminder, browser, ui, observed,
                 validation, keyboard>>

\* the rest of initialize(), which has no await: timerManager.start() if a
\* period was found, setupReminderCallbacks, keyboardShortcutService
\* .initialize(), setupVisibilityHandling, setupBeforeUnloadHandling,
\* initialized = true
AppFinish(i) ==
  /\ app.pc[i] = "active"
  /\ browser.handles + 3 <= MaxHandles
  /\ LET started == app.found[i] # <<>>
         t == IF started THEN StartedTimer(timer, browser, app.found[i][1])
              ELSE timer
         b == IF started THEN StartedBrowser(timer, browser) ELSE browser
     IN /\ timer' = t
        /\ browser' = [b EXCEPT !.keydown = @ \cup {b.handles + 1},
                                !.handles = @ + 1]
        /\ keyboard' = [keyboard EXCEPT !.handler = b.handles + 1]
        /\ observed' = IF started
                         THEN [observed EXCEPT
                                 !.delivered = notifySubscribers(t),
                                 !.startedFor = app.found[i][1].startTime]
                         ELSE observed
        /\ app' = [app EXCEPT !.pc[i] = "done", !.initialized = TRUE,
                              !.starts = IF started THEN @ + 1 ELSE @,
                              !.keyboards = @ + 1, !.listeners = @ + 1]
  /\ UNCHANGED <<periodVars, reminder, ui, validation>>

\* shutdown(): timerManager.stop(), cancelReminder(), keyboard cleanup(),
\* initialized = false
AppShutdown ==
  /\ timer' = StoppedTimer(timer)
  /\ reminder' = CancelledReminder(reminder)
  /\ keyboard' = NoShortcuts
  /\ browser' = [CancelledBrowser(reminder, StoppedBrowser(timer, browser))
                   EXCEPT !.keydown = @ \ {keyboard.handler}]
  /\ app' = [app EXCEPT !.initialized = FALSE]
  /\ UNCHANGED <<periodVars, ui, observed, validation>>

----------------------------------------------------------------------------
(* usePeriodActions: the actions the views and the shortcuts call *)

\* transitionPeriod of the hook, up to its await:
\* breakReminderService.cancelReminder(); periodManager.transitionPeriod()
HookTransitionPeriod(c) ==
  /\ IdLeft
  /\ \E a \in getActivePeriod(store) :
       StartCall(c, "transitionPeriod", <<>>, a, <<>>)
  /\ pc' = [pc EXCEPT ![c] = "t_read"]
  /\ caught' = [caught EXCEPT ![c] = <<>>]
  /\ reminder' = CancelledReminder(reminder)
  /\ browser' = CancelledBrowser(reminder, browser)
  /\ UNCHANGED <<store, nextId, clock, updatesBegun, beforePause, tx, timer, ui,
                 observed, validation, keyboard, app>>

\* periodManager.transitionPeriod() resolves and the hook goes on:
\* setActivePeriod(newPeriod); setIsPaused(false)
HookTransitionReturn(c) ==
  /\ pc[c] = "t_saved"
  /\ pc' = [pc EXCEPT ![c] = "done"]
  /\ ui' = [ui EXCEPT !.activePeriod = newPeriod[c], !.isPaused = FALSE]
  /\ UNCHANGED <<store, nextId, clock, op, now, activePeriod, resumeFromPeriod,
                 newPeriod, period, updatedPeriod, err, arg, overlapped,
                 updatesBegun, beforePause, caught, tx, timer, reminder,
                 browser, observed, validation, keyboard, app>>

\* pauseResume of the hook, up to its await: periodManager.pauseResume()
HookPauseResume(c) == BeginPauseResume(c)

\* periodManager.pauseResume() resolves and the hook goes on:
\* setActivePeriod(newPeriod); setIsPaused(newPeriod.isPaused)
HookPauseResumeReturn(c) ==
  /\ pc[c] = "p_saved"
  /\ pc' = [pc EXCEPT ![c] = "done"]
  /\ ui' = [ui EXCEPT !.activePeriod = newPeriod[c],
                      !.isPaused = newPeriod[c][1].isPaused]
  /\ UNCHANGED <<store, nextId, clock, op, now, activePeriod, resumeFromPeriod,
                 newPeriod, period, updatedPeriod, err, arg, overlapped,
                 updatesBegun, beforePause, caught, tx, timer, reminder,
                 browser, observed, validation, keyboard, app>>

\* updateActivePeriod of the hook, up to its await: the active period is
\* taken from the zustand store (nothing happens when it is null), then
\* periodManager.updatePeriod(activePeriod.id, updates)
HookUpdateActivePeriod(c, partials) ==
  /\ ui.activePeriod # <<>>
  /\ updatesBegun < MaxUpdates
  /\ \E u \in partials :
       StartCall(c, "updatePeriod", <<ui.activePeriod[1].id, u>>, <<>>,
                 getPeriod(store, ui.activePeriod[1].id))
  /\ pc' = [pc EXCEPT ![c] = "u_read"]
  /\ updatesBegun' = updatesBegun + 1
  /\ caught' = [caught EXCEPT ![c] = <<>>]
  /\ UNCHANGED <<store, nextId, clock, beforePause, tx, auxVars>>

\* periodManager.updatePeriod() resolves: setActivePeriod(updated)
HookUpdateReturn(c) ==
  /\ pc[c] = "u_saved"
  /\ pc' = [pc EXCEPT ![c] = "done"]
  /\ ui' = [ui EXCEPT !.activePeriod = updatedPeriod[c]]
  /\ UNCHANGED <<store, nextId, clock, op, now, activePeriod, resumeFromPeriod,
                 newPeriod, period, updatedPeriod, err, arg, overlapped,
                 updatesBegun, beforePause, caught, tx, timer, reminder,
                 browser, observed, validation, keyboard, app>>

\* what an updateActivePeriod in flight does next (the period the zustand
\* store holds is in the database, nothing here deletes periods, so
\* updatePeriod finds it)
HookUpdateStep(c) ==
  \/ UpdateSave(c)
  \/ HookUpdateReturn(c)

\* the updates the view's name and notes fields send
EditPartials == {[name |-> "coding"], [notes |-> "n"]}

\* handleNameChange / handleNotesChange: the debounced function is called,
\* which clears the timeout pending and sets a new one of 500 ms holding the
\* text typed (typedFor: the period on screen as the user typed)
TypeEdit(u) ==
  /\ ui.activePeriod # <<>>
  /\ ui' = [ui EXCEPT !.pendingEdit =
               <<[typedFor |-> ui.activePeriod[1].id, updates |-> u]>>]
  /\ UNCHANGED <<periodVars, timer, reminder, browser, observed, validation,
                 keyboard, app>>

\* the debounce timeout fires: updateActivePeriod(updates) runs up to its
\* await, on the activePeriod the zustand store holds now
DebounceFires(c) ==
  /\ ui.pendingEdit # <<>>
  /\ ui.activePeriod # <<>>
  /\ updatesBegun < MaxUpdates
  /\ StartCall(c, "updatePeriod",
               <<ui.activePeriod[1].id, ui.pendingEdit[1].updates>>, <<>>,
               getPeriod(store, ui.activePeriod[1].id))
  /\ pc' = [pc EXCEPT ![c] = "u_read"]
  /\ updatesBegun' = updatesBegun + 1
  /\ caught' = [caught EXCEPT ![c] = <<>>]
  /\ ui' = [ui EXCEPT !.pendingEdit = <<>>]
  /\ observed' = [observed EXCEPT !.editFor = ui.pendingEdit[1].typedFor]
  /\ UNCHANGED <<store, nextId, clock, beforePause, tx, timer, reminder,
                 browser, validation, keyboard, app>>

\* what a hook action in flight does next
HookStep(c) ==
  \/ TransitionEndCurrent(c)
  \/ TransitionStartNew(c)
  \/ HookTransitionReturn(c)
  \/ PauseResumeNoActive(c)
  \/ PauseResumeEndCurrent(c)
  \/ PauseResumeLookup(c)
  \/ PauseResumeStartNew(c)
  \/ HookPauseResumeReturn(c)

\* the id of the store's activePeriod, the dependency of the effects
UiPeriodId == IF ui.activePeriod = <<>> THEN Null ELSE ui.activePeriod[1].id

\* the effect of useTimerSubscription runs because activePeriod?.id changed:
\* the cleanup of the effect mounted before (timerManager.stop()), then
\* timerManager.start(activePeriod) unless activePeriod is null
TimerEffect ==
  /\ UiPeriodId # ui.timerFor
  /\ ui' = [ui EXCEPT !.timerFor = UiPeriodId]
  /\ IF ui.activePeriod = <<>>
       THEN /\ timer' = StoppedTimer(timer)
            /\ browser' = StoppedBrowser(timer, browser)
            /\ UNCHANGED observed
       ELSE /\ browser.handles + 2 <= MaxHandles
            /\ timer' = StartedTimer(timer, browser, ui.activePeriod[1])
            /\ browser' = StartedBrowser(timer, browser)
            /\ observed' = [observed EXCEPT
                  !.delivered =
                    notifySubscribers(StartedTimer(timer, browser, ui.activePeriod[1])),
                  !.startedFor = ui.activePeriod[1].startTime]
  /\ UNCHANGED <<periodVars, reminder, validation, keyboard, app>>

----------------------------------------------------------------------------
(* Specifications *)

\* what a lifecycle call in flight does next
LifecycleStep(c) ==
  \/ TransitionEndCurrent(c)
  \/ TransitionStartNew(c)
  \/ TransitionReturn(c)
  \/ PauseResumeNoActive(c)
  \/ PauseResumeEndCurrent(c)
  \/ PauseResumeLookup(c)
  \/ PauseResumeStartNew(c)
  \/ PauseResumeReturn(c)

\* what an updatePeriod call in flight does next
UpdateStep(c) ==
  \/ UpdateNotFound(c)
  \/ UpdateSave(c)
  \/ UpdateReturn(c)

\* callers serialize: a call begins only when none is in flight, so one
\* slot runs them all
Next ==
  \/ Tick
  \/ \E c \in {1} :
       \/ NoneInFlight /\ BeginTransition(c)
       \/ NoneInFlight /\ BeginPauseResume(c)
       \/ NoneInFlight /\ BeginUpdate(c, MetadataPartials)
       \/ LifecycleStep(c)
       \/ UpdateStep(c)

Spec == Init /\ [][Next]_vars

\* callers do not serialize: lifecycle calls begin whenever a slot is free
\* (two rapid key presses, a click during a key press)
NextOverlap ==
  \/ Tick
  \/ \E c \in Calls :
       \/ BeginTransition(c)
       \/ BeginPauseResume(c)
       \/ LifecycleStep(c)

SpecOverlap == Init /\ [][NextOverlap]_vars

\* serialized calls, updatePeriod being handed any Partial<TimePeriod> that
\* does not carry an id
NextUpdate ==
  \/ Tick
  \/ \E c \in {1} :
       \/ NoneInFlight /\ BeginTransition(c)
       \/ NoneInFlight /\ BeginPauseResume(c)
       \/ NoneInFlight /\ BeginUpdate(c, FieldPartials)
       \/ LifecycleStep(c)
       \/ UpdateStep(c)

SpecUpdate == Init /\ [][NextUpdate]_vars

\* serialized lifecycle calls, page reloads in the middle of a call, and
\* recoverIncompleteSession called when no call is in flight
NextRecover ==
  \/ Tick
  \/ \E c \in {1} :
       \/ NoneInFlight /\ BeginTransition(c)
       \/ NoneInFlight /\ BeginPauseResume(c)
       \/ NoneInFlight /\ BeginRecover(c)
       \/ LifecycleStep(c)
       \/ recoverIncompleteSession(c)
       \/ Reload(c)

SpecRecover == Init /\ [][NextRecover]_vars

\* serialized lifecycle calls on a database whose requests may fail
NextFault ==
  \/ Tick
  \/ \E c \in {1} :
       \/ NoneInFlight /\ BeginTransition(c)
       \/ NoneInFlight /\ BeginTransitionReadFails(c)
       \/ NoneInFlight /\ BeginPauseResume(c)
       \/ NoneInFlight /\ BeginPauseResumeReadFails(c)
       \/ LifecycleStep(c)
       \/ SavePeriodFails(c)
       \/ GetPeriodFails(c)

SpecFault == Init /\ [][NextFault]_vars

\* transaction() calls, one at a time, whose callbacks save periods
NextTx ==
  \/ Tick
  \/ TransactionBegin
  \/ CallbackSavePeriod
  \/ CallbackReturns
  \/ CallbackThrows
  \/ TransactionCommit
  \/ TransactionRollback

SpecTx == Init /\ [][NextTx]_vars

\* the periods a caller may start the timer for
TimerPeriods == {DefaultPeriod(1, t) : t \in 1..clock}

\* the TimerManager driven by its callers and by the window
NextTimer ==
  \/ Tick
  \/ \E p \in TimerPeriods : TimerStart(p)
  \/ TimerStop
  \/ \E cb \in Callbacks : Subscribe(cb)
  \/ \E i \in 1..MaxSubscriptions : Unsubscribe(i)
  \/ IntervalFires
  \/ VisibilityChange

SpecTimer == Init /\ [][NextTimer]_vars

\* the KeyboardShortcutService driven by its callers and by key presses
NextKeyboard ==
  \/ KeyboardInitialize
  \/ \E key \in ShortcutKeys : KeyboardRegister(key)
  \/ KeyboardCleanup
  \/ \E key \in ShortcutKeys : KeyDown(key)

SpecKeyboard == Init /\ [][NextKeyboard]_vars

\* AppProvider mounts, unmounts and mounts again (as React's strict mode
\* does): up to two initialize() calls, a shutdown() at any time
NextInit ==
  \/ Tick
  \/ \E i \in InitCalls :
       \/ AppInitialize(i)
       \/ AppStorageReady(i)
       \/ AppBootstrap(i)
       \/ AppReadActive(i)
       \/ AppFinish(i)
  \/ AppShutdown

SpecInit == Init /\ [][NextInit]_vars

\* the hook actions as the views and the shortcuts call them: a key press
\* ends, pauses or resumes the period in one slot while the view's edit of
\* the active period runs in the other, neither waiting for the other
NextHooks ==
  \/ Tick
  \/ HookTransitionPeriod(1)
  \/ HookPauseResume(1)
  \/ HookStep(1)
  \/ HookUpdateActivePeriod(2, MetadataPartials)
  \/ HookUpdateStep(2)

SpecHooks == Init /\ [][NextHooks]_vars

\* the user types in the current-period view and presses the shortcuts
\* while the debounce timeout is pending
NextDebounce ==
  \/ Tick
  \/ HookTransitionPeriod(1)
  \/ HookPauseResume(1)
  \/ HookStep(1)
  \/ \E u \in EditPartials : TypeEdit(u)
  \/ DebounceFires(2)
  \/ HookUpdateStep(2)

SpecDebounce == Init /\ [][NextDebounce]_vars

\* the break reminder next to the hook actions: the user ends, pauses and
\* resumes periods one action at a time and starts reminders in between
NextReminder ==
  \/ Tick
  \/ \E c \in {1} :
       \/ NoneInFlight /\ HookTransitionPeriod(c)
       \/ NoneInFlight /\ HookPauseResume(c)
       \/ HookStep(c)
  \/ NoneInFlight /\ StartReminder
  \/ CancelReminder
  \/ ReminderFires

SpecReminder == Init /\ [][NextReminder]_vars

\* serialized calls, updatePeriod being handed partials that carry an id,
\* the pause flag or the link
NextUpdateId ==
  \/ Tick
  \/ \E c \in {1} :
       \/ NoneInFlight /\ BeginTransition(c)
       \/ NoneInFlight /\ BeginPauseResume(c)
       \/ NoneInFlight /\ BeginUpdate(c, IdPartials)
       \/ LifecycleStep(c)
       \/ UpdateStep(c)

SpecUpdateId == Init /\ [][NextUpdateId]_vars

\* serialized lifecycle calls, ended periods being deleted between them
NextDelete ==
  \/ Tick
  \/ \E c \in {1} :
       \/ NoneInFlight /\ BeginTransition(c)
       \/ NoneInFlight /\ BeginPauseResume(c)
       \/ LifecycleStep(c)
  \/ \E id \in 1..MaxPeriods : NoneInFlight /\ DeletePeriod(id)

SpecDelete == Init /\ [][NextDelete]_vars

\* the view's debounced updatePeriod runs in one slot while a key press or
\* a click runs a lifecycle call in the other; nothing serializes the two
NextRace ==
  \/ Tick
  \/ BeginTransition(1)
  \/ BeginPauseResume(1)
  \/ LifecycleStep(1)
  \/ BeginUpdate(2, MetadataPartials)
  \/ UpdateStep(2)

SpecRace == Init /\ [][NextRace]_vars

\* serialized lifecycle calls with validatePeriodContinuity() between them
NextValidate ==
  \/ Tick
  \/ \E c \in {1} :
       \/ NoneInFlight /\ BeginTransition(c)
       \/ NoneInFlight /\ BeginPauseResume(c)
       \/ NoneInFlight /\ BeginValidate(c)
       \/ LifecycleStep(c)
       \/ ValidateReturn(c)

SpecValidate == Init /\ [][NextValidate]_vars

\* the views on top of the hook actions: the timer effect follows the
\* store's active period, a view subscribes to the timer while it is
\* mounted and unsubscribes when it goes
NextUI ==
  \/ Tick
  \/ \E c \in {1} :
       \/ NoneInFlight /\ HookTransitionPeriod(c)
       \/ NoneInFlight /\ HookPauseResume(c)
       \/ HookStep(c)
  \/ TimerEffect
  \/ Subscribe("f")
  \/ \E i \in 1..MaxSubscriptions : Unsubscribe(i)
  \/ IntervalFires

SpecUI == Init /\ [][NextUI]_vars

----------------------------------------------------------------------------
(* Properties *)

\* a lifecycle call in slot c has returned its new period
Completed(c) == pc[c] = "done" /\ op[c] \in LifecycleOps

\* C1: with serialized calls starting from the empty store, after every
\* completed transitionPeriod / pauseResume exactly one stored period has no
\* endTime, getActivePeriod() can only answer with that period, and it is
\* the period the call returned.
C1_ExactlyOneOpenPeriod ==
  /\ (NoneInFlight /\ DOMAIN store # {}) =>
       /\ Cardinality(OpenIds(store)) = 1
       /\ getActivePeriod(store) = {<<rowToPeriod(store[i])>> : i \in OpenIds(store)}
  /\ \A c \in Calls : Completed(c) => getActivePeriod(store) = {newPeriod[c]}

C1_Witness ==
  /\ Completed(1)
  /\ op[1] = "pauseResume"
  /\ Cardinality(DOMAIN store) >= 3
  /\ Cardinality(OpenIds(store)) = 1

\* C2: after each completed transitionPeriod / pauseResume, for every
\* non-decreasing clock (two calls may read the same millisecond),
\* validatePeriodContinuity() reports valid = true with no errors.
C2_ContinuityValidates ==
  \A c \in Calls : Completed(c) =>
    \A r \in validatePeriodContinuity(store) : r.valid /\ r.errors = {}

\* C3: when a transitionPeriod / pauseResume that found an open period has
\* completed, the endTime it wrote to that period equals the startTime of the
\* period it returned, both being the clock reading taken when the call began;
\* the stored closed period and the stored new open period are adjacent.
C3_EndEqualsNextStart ==
  \A c \in Calls : (Completed(c) /\ activePeriod[c] # <<>>) =>
    LET closed == activePeriod[c][1]
        np == newPeriod[c][1]
    IN /\ closed.endTime = now[c]
       /\ np.startTime = now[c]
       /\ store[closed.id].endTime = store[np.id].startTime
       /\ store[closed.id].startTime <= store[closed.id].endTime
       /\ store[np.id].endTime = Null

C3_Witness ==
  /\ Completed(1)
  /\ activePeriod[1] # <<>>
  /\ now[1] < clock

\* C4: closing the active period and opening its successor is atomic: a
\* store that holds periods never holds zero open periods, not even between
\* the two writes of one call.
C4_NeverZeroOpen == DOMAIN store # {} => OpenIds(store) # {}

\* C5: a lifecycle call begun while another is in flight is rejected with
\* Busy before it writes: once past its first await it has failed with Busy.
C5_SecondCallBusy ==
  \A c \in Calls :
    (overlapped[c] /\ op[c] \in LifecycleOps /\ pc[c] \notin {"t_read", "p_read"})
      => (pc[c] = "failed" /\ err[c] = "Busy")

\* C6: once two overlapping lifecycle calls that each found an open period
\* have both settled, the store holds at most one open period and they have
\* not closed the same period with different endTime values.
C6_OverlapSettlesConsistent ==
  (/\ NoneInFlight
   /\ \E c \in Calls : overlapped[c]
   /\ \A c \in Calls : Completed(c) /\ activePeriod[c] # <<>>) =>
    /\ Cardinality(OpenIds(store)) <= 1
    /\ \A c, d \in Calls :
         (activePeriod[c] # <<>> /\ activePeriod[d] # <<>>
            /\ activePeriod[c][1].id = activePeriod[d][1].id)
           => activePeriod[c][1].endTime = activePeriod[d][1].endTime

\* C7: a pauseResume that found no open period fails with the error
\* 'No active period found' and its step writes nothing to the store.
C7_PauseResumeNoActiveFails ==
  [][\A c \in Calls :
       (pc[c] = "p_read" /\ activePeriod[c] = <<>> /\ pc'[c] # pc[c]) =>
         /\ pc'[c] = "failed"
         /\ err'[c] = "No active period found"
         /\ store' = store
         /\ nextId' = nextId]_vars

C7_Witness ==
  \E c \in Calls :
    /\ pc[c] = "failed"
    /\ op[c] = "pauseResume"
    /\ err[c] = "No active period found"
    /\ DOMAIN store # {}
    /\ OpenIds(store) = {}

\* C8: a completed pauseResume that found a working period open has closed
\* it at now and returned (and stored as the only open period) a period with
\* startTime = now, isPaused, resumeFromPeriodId = the closed period's id,
\* theme 'pause' and empty notes and tags.
C8_PausingCreatesPausePeriod ==
  \A c \in Calls :
    (Completed(c) /\ op[c] = "pauseResume" /\ ~activePeriod[c][1].isPaused) =>
      LET closed == activePeriod[c][1]
          np == newPeriod[c][1]
      IN /\ store[closed.id].endTime = now[c]
         /\ np.startTime = now[c]
         /\ np.endTime = Null
         /\ np.isPaused
         /\ np.resumeFromPeriodId = closed.id
         /\ np.id # closed.id
         /\ np.theme = "pause"
         /\ np.notes = ""
         /\ np.tags = <<>>
         /\ getPeriod(store, np.id) = <<np>>
         /\ getActivePeriod(store) = {<<np>>}

C8_Witness ==
  /\ Completed(1)
  /\ op[1] = "pauseResume"
  /\ ~activePeriod[1][1].isPaused
  /\ activePeriod[1][1].notes = "n"
  /\ activePeriod[1][1].tags = <<"t">>

\* C9: a completed pauseResume that found a pause period open has closed it
\* at now and returned a period with startTime = now, isPaused = false,
\* resumeFromPeriodId = null, whose theme, category, name, notes and tags are
\* those of the stored period the pause period's resumeFromPeriodId names.
C9_ResumeCopiesMetadata ==
  \A c \in Calls :
    (/\ Completed(c) /\ op[c] = "pauseResume" /\ activePeriod[c][1].isPaused
     /\ activePeriod[c][1].resumeFromPeriodId \in DOMAIN store) =>
      LET closed == activePeriod[c][1]
          np == newPeriod[c][1]
          src == rowToPeriod(store[closed.resumeFromPeriodId])
      IN /\ store[closed.id].endTime = now[c]
         /\ np.startTime = now[c]
         /\ ~np.isPaused
         /\ np.resumeFromPeriodId = Null
         /\ np.theme = src.theme
         /\ np.category = src.category
         /\ np.name = src.name
         /\ np.notes = src.notes
         /\ np.tags = src.tags

\* C10: round trip: when a working period P is paused and the pause is then
\* resumed (P itself not edited meanwhile), the period the resume returns
\* has the theme, category, name, notes and tags P had when the pause began.
C10_PauseResumeRoundTrip ==
  \A c \in Calls :
    (/\ Completed(c) /\ op[c] = "pauseResume" /\ activePeriod[c][1].isPaused
     /\ activePeriod[c][1].id \in DOMAIN beforePause) =>
      LET P == beforePause[activePeriod[c][1].id]
          np == newPeriod[c][1]
      IN /\ np.theme = P.theme
         /\ np.category = P.category
         /\ np.name = P.name
         /\ np.notes = P.notes
         /\ np.tags = P.tags

\* C11: pause linkage: whenever no call is in flight, every stored pause
\* period names, in resumeFromPeriodId, a stored period created before it (ids
\* are handed out in creation order), and every stored period that is not a
\* pause period has resumeFromPeriodId = null; also after updatePeriod with
\* any partial.
C11_PauseLinkage ==
  NoneInFlight =>
    \A i \in DOMAIN store :
      /\ store[i].isPaused = 1 =>
           /\ store[i].resumeFromPeriodId # Null
           /\ store[i].resumeFromPeriodId \in DOMAIN store
           /\ store[i].resumeFromPeriodId < i
      /\ store[i].isPaused = 0 => store[i].resumeFromPeriodId = Null

C13_UpdateUnknownIdFails ==
  [][\A c \in Calls :
       (pc[c] = "u_read" /\ period[c] = <<>> /\ pc'[c] # pc[c]) =>
         /\ pc'[c] = "failed"
         /\ err'[c] = "Period not found"
         /\ store' = store]_vars

C13_Witness ==
  /\ pc[1] = "failed"
  /\ op[1] = "updatePeriod"
  /\ err[1] = "Period not found"
  /\ arg[1][1] \notin DOMAIN store
  /\ DOMAIN store # {}

\* fields of a TimePeriod an updatePeriod never writes from its partial
FrozenFields == {"startTime", "endTime", "createdAt", "updatedAt"}

RecoverRuns(c) == pc[c] = "r_called" /\ pc'[c] = "done"

\* the latest period created (ids are handed out in creation order)
LastCreated(st) == CHOOSE i \in DOMAIN st : \A j \in DOMAIN st : j <= i

\* C15: when the store has an open period, recoverIncompleteSession leaves
\* the store as it was: it closes no period and creates none (so a second
\* call right after a first changes nothing).
C15_RecoverKeepsOpenPeriod ==
  [][\A c \in Calls :
       (RecoverRuns(c) /\ OpenIds(store) # {}) =>
         /\ store' = store
         /\ nextId' = nextId]_vars

C15_Witness ==
  /\ pc[1] = "done"
  /\ op[1] = "recoverIncompleteSession"
  /\ Cardinality(DOMAIN store) >= 2
  /\ Cardinality(OpenIds(store)) = 1

\* C16: recoverIncompleteSession on the empty store leaves exactly one
\* period in the store, open, not a pause period, with startTime = now, and
\* getActivePeriod() answers with it.
C16_RecoverBootstraps ==
  [][\A c \in Calls :
       (RecoverRuns(c) /\ DOMAIN store = {}) =>
         /\ Cardinality(DOMAIN store') = 1
         /\ \A i \in DOMAIN store' :
              /\ store'[i].endTime = Null
              /\ store'[i].isPaused = 0
              /\ store'[i].startTime = now[c]
              /\ getActivePeriod(store') = {<<rowToPeriod(store'[i])>>}]_vars

\* C17: recoverIncompleteSession on a non-empty store for which
\* getActivePeriod() answers null closes the latest period created at
\* lastKnownCloseTime if given, else at now, and creates an open period that
\* starts at that instant, so that exactly one period is open afterwards.
C17_RecoverRepairs ==
  [][\A c \in Calls :
       (RecoverRuns(c) /\ DOMAIN store # {} /\ getActivePeriod(store) = {<<>>}) =>
         LET t == IF arg[c] # <<>> THEN arg[c][1] ELSE now[c]
         IN /\ store'[LastCreated(store)].endTime = t
            /\ Cardinality(OpenIds(store')) = 1
            /\ \A i \in OpenIds(store') :
                 i \notin DOMAIN store /\ store'[i].startTime = t]_vars

\* C18: a failure of a storage request made by a lifecycle call reaches the
\* caller as a storage error: no call returns normally after one of its
\* requests failed, and none hides the failure behind another outcome.
C18_StoreFailureSurfaces ==
  \A c \in Calls :
    (caught[c] # <<>> /\ pc[c] \in {"done", "failed"}) =>
      /\ pc[c] = "failed"
      /\ err[c] \in StoreErrors

\* C19: when the callback of transaction() throws, the store is afterwards
\* what it was before the call, whatever the callback saved, and the call
\* fails with the callback's error; when the callback returns, what it saved
\* stays in the store and the call returns the callback's result.
C19_TransactionAtomic ==
  [][/\ (tx.pc = "threw" /\ tx'.pc = "failed") =>
          (store' = tx.before /\ tx'.error = tx.thrown)
     /\ (tx.pc = "returned" /\ tx'.pc = "done") =>
          (store' = store /\ tx'.value = tx.result)]_vars

C19_Witness ==
  /\ tx.pc = "failed"
  /\ tx.upserts = 2
  /\ tx.error = "E2"
  /\ DOMAIN store # {}
  /\ store = tx.before

\* C20: the period a transitionPeriod saves and returns, whether it found
\* no open period, an open working period or an open pause period: it has an
\* id no stored period has, startTime = now, no endTime, isPaused = false,
\* resumeFromPeriodId = null and the default metadata (theme and category
\* null, empty name, notes and tags), and it is then the stored open period.
C20_TransitionReturnsDefaultPeriod ==
  [][\A c \in Calls :
       (op[c] = "transitionPeriod" /\ pc[c] # "t_saved" /\ pc'[c] = "t_saved") =>
         LET np == newPeriod'[c][1]
         IN /\ np.id \notin DOMAIN store
            /\ np.startTime = now[c]
            /\ np.endTime = Null
            /\ ~np.isPaused
            /\ np.resumeFromPeriodId = Null
            /\ np.theme = NullStr
            /\ np.category = NullStr
            /\ np.name = ""
            /\ np.notes = ""
            /\ np.tags = <<>>
            /\ getPeriod(store', np.id) = <<np>>
            /\ getActivePeriod(store') = {<<np>>}]_vars

C20_Witness ==
  /\ Completed(1)
  /\ op[1] = "transitionPeriod"
  /\ activePeriod[1] # <<>>
  /\ activePeriod[1][1].isPaused
  /\ activePeriod[1][1].name = "Paused"
  /\ getActivePeriod(store) = {newPeriod[1]}

\* the callbacks a Set of subscribers holds
Subscribed == {timer.subscribers[i] : i \in DOMAIN timer.subscribers}

\* C21: subscriptions are independent: every subscription whose unsubscribe
\* function has not been called still has its callback among the subscribers
\* (it keeps receiving ticks), also when the same callback was subscribed
\* more than once and one of the unsubscribe functions was called.
C21_SubscriptionsIndependent ==
  \A i \in DOMAIN observed.subscriptions :
    observed.subscriptions[i].live => observed.subscriptions[i].cb \in Subscribed

\* C30: every notification round calls every subscriber, those after a
\* subscriber that throws included, and so does every later round.
C30_ThrowingSubscriberIsolated ==
  [][observed'.delivered # observed.delivered =>
       /\ Len(observed'.delivered) = Len(timer.subscribers)
       /\ \A i \in DOMAIN timer.subscribers :
            observed'.delivered[i].cb = timer.subscribers[i]]_vars

C30_Witness ==
  /\ Len(observed.delivered) = 3
  /\ observed.delivered[1].cb = "bad"
  /\ observed.delivered[3].elapsed = 1
  /\ timer.intervalId # Null

\* the call in slot c has ended the period it found open
EndedCurrent(c) ==
  /\ op[c] \in LifecycleOps
  /\ activePeriod[c] # <<>>
  /\ pc[c] \in {"t_closed", "t_saved", "p_closed", "p_lookup", "p_saved"}

\* C23: when an action has ended the current period (end-period or
\* pause/resume), no break reminder is active: isActive() is false and no
\* timeout is left to fire.
C23_ReminderCancelledOnPeriodEnd ==
  \A c \in Calls :
    EndedCurrent(c) => (~isActive(reminder) /\ browser.timeouts = {})

\* C29: at most one reminder timeout is pending; isActive() is true exactly
\* while one is pending (scheduled, not fired, not cancelled), the one
\* timerId names; no more notifications are shown than reminders started.
C29_AtMostOneReminder ==
  /\ Cardinality(browser.timeouts) <= 1
  /\ isActive(reminder) <=> browser.timeouts # {}
  /\ isActive(reminder) => reminder.timerId \in browser.timeouts
  /\ observed.notifications <= observed.reminders

C29_Witness ==
  /\ observed.reminders = 3
  /\ observed.notifications = 1
  /\ isActive(reminder)
  /\ browser.timeouts = {3}

\* isRunning()
isRunning(t) == t.intervalId # Null

\* C22: the periodic tick is stopped (no interval left, isRunning() false)
\* once the last subscriber has unsubscribed; and once the timer effect has
\* run for the period an end-period or pause/resume action returned, a
\* running timer measures from that period's startTime, not the old one's.
C22_TickStopsWithoutSubscribers ==
  /\ (observed.subscriptions # <<>> /\ timer.subscribers = <<>>) =>
       (~isRunning(timer) /\ browser.intervals = {})
  /\ \A c \in Calls :
       (Completed(c) /\ ui.timerFor = newPeriod[c][1].id /\ isRunning(timer)) =>
         timer.startTime = newPeriod[c][1].startTime

Validated(c) == pc[c] = "done" /\ op[c] = "validatePeriodContinuity"

\* the orders of 1..n in which the periods ps start no earlier than the one
\* before
OrdersByStartTime(ps) ==
  {s \in [1..Len(ps) -> 1..Len(ps)] :
     /\ \A i, j \in 1..Len(ps) : i # j => s[i] # s[j]
     /\ \A i \in 1..(Len(ps) - 1) : ps[s[i]].startTime <= ps[s[i+1]].startTime}

\* C24: a completed validatePeriodContinuity() has left the store as it
\* found it, and there is an order of the closed periods it read, sorted by
\* startTime, for which it reports one error for each adjacent pair with
\* prev.endTime # next.startTime, every one of them, and valid exactly when
\* there is none.
C24_ValidateReadOnlyAndComplete ==
  \A c \in Calls :
    Validated(c) =>
      LET v == validation[c][1]
          closed == SelectSeq(v.periods, IsClosed)
      IN /\ store = v.before
         /\ \E s \in OrdersByStartTime(closed) :
              LET bad == {i \in 1..(Len(closed) - 1) :
                            closed[s[i]].endTime # closed[s[i+1]].startTime}
              IN /\ v.result.errors =
                      {<<closed[s[i]].id, closed[s[i+1]].id>> : i \in bad}
                 /\ Cardinality(v.result.errors) = Cardinality(bad)
                 /\ v.result.valid <=> bad = {}

\* a validation that reported two errors
C24_Witness ==
  \E c \in Calls :
    /\ Validated(c)
    /\ Cardinality(validation[c][1].result.errors) = 2
    /\ ~validation[c][1].result.valid

\* C25: when an updatePeriod(id, updates) has completed and a lifecycle call
\* that closed period id has completed too, whatever the order of their
\* reads and writes, the stored period still has its endTime, and with no
\* call in flight the store holds at most one open period.
C25_InterleavedUpdateKeepsEndTime ==
  /\ \A c, d \in Calls :
       (/\ pc[c] = "done" /\ op[c] = "updatePeriod"
        /\ Completed(d) /\ activePeriod[d] # <<>>
        /\ activePeriod[d][1].id = arg[c][1]) =>
         store[arg[c][1]].endTime # Null
  /\ NoneInFlight => Cardinality(OpenIds(store)) <= 1

\* C26: the step in which updatePeriod(id, updates) writes leaves the number
\* of stored periods and the id of each as they were, and the period it
\* returns carries the id it was called with, also when updates carries an
\* id, isPaused or resumeFromPeriodId.
C26_UpdateKeepsIds ==
  [][\A c \in Calls :
       (pc[c] = "u_read" /\ pc'[c] = "u_saved") =>
         /\ DOMAIN store' = DOMAIN store
         /\ \A i \in DOMAIN store : store'[i].id = store[i].id
         /\ updatedPeriod'[c][1].id = arg[c][1]]_vars

\* C27: when a pauseResume() that found a pause period open returns and the
\* period named by the pause period's resumeFromPeriodId is not in the store,
\* it returns without an error: the pause period is closed at now and the
\* period returned is the stored open working period, with theme and
\* category null and name, notes and tags empty.
C27_ResumeAfterDeleteUsesDefaults ==
  [][\A c \in Calls :
       (/\ pc[c] = "p_saved" /\ pc'[c] # "p_saved"
        /\ activePeriod[c][1].isPaused
        /\ activePeriod[c][1].resumeFromPeriodId \notin DOMAIN store) =>
         /\ pc'[c] = "done" /\ err'[c] = ""
         /\ store'[activePeriod[c][1].id].endTime = now[c]
         /\ newPeriod'[c] = <<DefaultPeriod(newPeriod[c][1].id, now[c])>>
         /\ getActivePeriod(store') = {newPeriod'[c]}]_vars

C27_Witness ==
  \E c \in Calls :
    /\ Completed(c) /\ op[c] = "pauseResume"
    /\ activePeriod[c][1].isPaused
    /\ activePeriod[c][1].resumeFromPeriodId # Null
    /\ activePeriod[c][1].resumeFromPeriodId \notin DOMAIN store
    /\ resumeFromPeriod[c] = <<>>
    /\ newPeriod[c][1].id \in OpenIds(store)

\* C28: with serialized calls, the period a completed pauseResume() returned
\* has the negation of the isPaused flag of the period that was open before
\* the call, and isPaused() reports that new flag; whenever no call is in
\* flight isPaused() reports the flag of the open period, false when the
\* store has none.
C28_PauseResumeToggles ==
  /\ \A c \in Calls :
       (Completed(c) /\ op[c] = "pauseResume") =>
         /\ newPeriod[c][1].isPaused = ~activePeriod[c][1].isPaused
         /\ isPaused(store) = {newPeriod[c][1].isPaused}
  /\ NoneInFlight =>
       /\ OpenIds(store) = {} => isPaused(store) = {FALSE}
       /\ \A i \in OpenIds(store) : isPaused(store) = {store[i].isPaused = 1}

\* a pause and the resume after it have both completed
C28_Witness ==
  \E c \in Calls :
    /\ Completed(c) /\ op[c] = "pauseResume"
    /\ activePeriod[c][1].isPaused
    /\ activePeriod[c][1].theme = "pause"
    /\ isPaused(store) = {FALSE}

\* C31: a transitionPeriod() whose lookup of the active period failed writes
\* no new period, and the store never holds two open periods.
C31_FailedReadWritesNothing ==
  /\ \A c \in Calls :
       (op[c] = "transitionPeriod" /\ caught[c] = <<"getActivePeriod">>) =>
         newPeriod[c] = <<>>
  /\ Cardinality(OpenIds(store)) <= 1

\* pc values of a lifecycle call whose new period has been saved
SavedNew == {"t_saved", "p_saved"}

\* C32: with serialized calls, a step of transitionPeriod / pauseResume
\* removes no period and either leaves the store alone, or adds one period
\* (the step that saves the new period, taken once by every call that
\* returns), or changes one stored period, which was open, in its endTime and
\* updatedAt only.
C32_LifecycleFrame ==
  [][\A c \in Calls :
       (op[c] \in LifecycleOps /\ InFlight(c) /\ pc'[c] # pc[c]) =>
         LET added == DOMAIN store' \ DOMAIN store
             changed == {i \in DOMAIN store \cap DOMAIN store' :
                           store'[i] # store[i]}
         IN /\ DOMAIN store \subseteq DOMAIN store'
            /\ Cardinality(added) + Cardinality(changed) <= 1
            /\ (pc'[c] \in SavedNew) <=> (Cardinality(added) = 1)
            /\ pc[c] \in SavedNew => (pc'[c] = "done" /\ store' = store)
            /\ pc'[c] = "done" => pc[c] \in SavedNew
            /\ \A i \in changed :
                 /\ store[i].endTime = Null
                 /\ pc'[c] \in {"t_closed", "p_closed"}
                 /\ store'[i] = [store[i] EXCEPT !.endTime = store'[i].endTime,
                                                 !.updatedAt = store'[i].updatedAt]]_vars

\* a transition has closed a period that had notes, with two more periods
\* in the store
C32_Witness ==
  /\ Completed(1)
  /\ op[1] = "transitionPeriod"
  /\ activePeriod[1] # <<>>
  /\ store[activePeriod[1][1].id].notes = "n"
  /\ Cardinality(DOMAIN store) >= 3

\* C33: with serialized calls and a clock that never goes back, every stored
\* period that has ended has startTime <= endTime, and an open period starts
\* no earlier than any other stored period.
C33_TimesOrdered ==
  /\ \A i \in DOMAIN store :
       store[i].endTime # Null => store[i].startTime <= store[i].endTime
  /\ \A i \in OpenIds(store), j \in DOMAIN store :
       store[j].startTime <= store[i].startTime

\* the open period started after a pause period that started after the
\* first period
C33_Witness ==
  /\ NoneInFlight
  /\ \E i \in OpenIds(store), j, k \in DOMAIN store :
       /\ store[k].startTime < store[j].startTime
       /\ store[j].startTime <= store[i].startTime
       /\ store[j].isPaused = 1 /\ store[j].endTime # Null
       /\ store[i].isPaused = 0 /\ i > j + 1

\* C34: whatever start(period) and stop() calls were made, at most one tick
\* interval and one visibilitychange listener are registered; while the timer
\* runs they are its own and elapsed time is measured from the startTime of
\* the period last started; when it does not run (after stop()) no interval
\* and no listener is left and getElapsedTime() is 0.
C34_OneIntervalOneListener ==
  /\ Cardinality(browser.intervals) <= 1
  /\ Cardinality(browser.listeners) <= 1
  /\ isRunning(timer) =>
       /\ browser.intervals = {timer.intervalId}
       /\ browser.listeners = {timer.visibilityChangeHandler}
       /\ timer.startTime = observed.startedFor
       /\ getElapsedTime(timer) = clock - observed.startedFor
  /\ ~isRunning(timer) =>
       /\ browser.intervals = {}
       /\ browser.listeners = {}
       /\ getElapsedTime(timer) = 0

\* stopped after two starts
C34_Witness ==
  /\ ~isRunning(timer)
  /\ observed.startedFor # Null
  /\ browser.handles >= 4

\* C35: whatever initialize() and cleanup() calls were made, at most one
\* keydown listener of the service is attached to the document, a key event
\* has invoked a registered shortcut at most once, and while the service holds
\* no handler (after cleanup()) nothing is attached and a key event invokes
\* nothing.
C35_OneKeydownListener ==
  /\ Cardinality(browser.keydown) <= 1
  /\ keyboard.invoked <= 1
  /\ keyboard.handler = Null => (browser.keydown = {} /\ keyboard.invoked = 0)

\* C36: once two initialize() calls, the second made while the first was
\* still awaiting, have both returned, the database was opened once, one
\* initial period at most was created, the timer was started once, one
\* keydown listener was registered, and the store holds one open period.
C36_InitializeOnce ==
  (/\ \A i \in InitCalls : app.pc[i] = "done"
   /\ \E i \in InitCalls : app.overlapped[i]) =>
    /\ app.opens <= 1
    /\ app.bootstraps <= 1
    /\ app.starts <= 1
    /\ app.keyboards <= 1
    /\ Cardinality(browser.keydown) <= 1
    /\ Cardinality(OpenIds(store)) <= 1

\* C37: once every hook action begun has settled, one of them having
\* returned, the zustand store's activePeriod has the id of the period
\* getActivePeriod() answers with, and its isPaused is that period's flag.
C37_UiMirrorsStore ==
  (NoneInFlight /\ \E c \in Calls : pc[c] = "done") =>
    \A ap \in getActivePeriod(store) :
      /\ ap # <<>>
      /\ ui.activePeriod # <<>>
      /\ ui.activePeriod[1].id = ap[1].id
      /\ ui.isPaused = ap[1].isPaused

\* C38: the updatePeriod a debounced name or notes edit leads to is made on
\* the period that was active when the edit was typed, and it is that period,
\* not one opened during the debounce window, that the edit is written to.
C38_EditGoesToPeriodTyped ==
  \A c \in Calls :
    (op[c] = "updatePeriod" /\ pc[c] \in {"u_read", "u_saved", "done"}
       /\ observed.editFor # Null) =>
      /\ arg[c][1] = observed.editFor
      /\ updatedPeriod[c] # <<>> => updatedPeriod[c][1].id = observed.editFor

====
